---- MODULE Spec2Model ----
(***************************************************************************)
(* Model of kserve's KFModel (python/kserve/kserve/kfmodel.py): the        *)
(* request pipeline __call__ = preprocess -> validate -> predict/explain   *)
(* -> postprocess, the lazily created HTTP client and gRPC stub, and the   *)
(* pure stages validate and preprocess on their own.                       *)
(*                                                                         *)
(* Python values are tagged records [t |-> <type>, ...]:                   *)
(*   None                [t |-> "None"]                                    *)
(*   int                 [t |-> "int",   v |-> n]                          *)
(*   str (atomic)        [t |-> "str",   v |-> "abc"]                      *)
(*   str (host, url)     [t |-> "text",  v |-> <<piece, ...>>]             *)
(*   list                [t |-> "list",  v |-> <<value, ...>>]             *)
(*   dict                [t |-> "dict",  v |-> [key |-> value]]            *)
(*   bytes               [t |-> "bytes", v |-> <<token, ...>>]             *)
(*   CloudEvent          [t |-> "CloudEvent", _attributes, data]           *)
(*   ServeRequest        [t |-> "ServeRequest", _body]                     *)
(*   ModelInferRequest   [t |-> "ModelInferRequest", id]                   *)
(*   ModelInferResponse  [t |-> "ModelInferResponse", id]                  *)
(* A byte buffer is a sequence of lexical tokens [k, v]; the token of kind *)
(* "bad" stands for a byte that is not valid UTF-8.                        *)
(***************************************************************************)
EXTENDS Integers, Sequences, FiniteSets, TLC

VARIABLES
    self,   \* the KFModel instance: its attributes
    task,   \* task[t]: the coroutine of one __call__ on the instance
    made,   \* how many AsyncHTTPClient objects / gRPC stubs were constructed
    fpc,    \* position of the stand-alone run of one stage
    arg,    \* the argument of the stand-alone stage
    ret,    \* the outcome of the stand-alone stage
    config  \* the instance as it was configured, before any __call__ ran

vars == <<self, task, made, fpc, arg, ret, config>>

-----------------------------------------------------------------------------
(* Python values *)

None == [t |-> "None"]
Num(n) == [t |-> "int", v |-> n]
Str(s) == [t |-> "str", v |-> s]
Text(ps) == [t |-> "text", v |-> ps]
List(s) == [t |-> "list", v |-> s]
Dict(f) == [t |-> "dict", v |-> f]
Bytes(b) == [t |-> "bytes", v |-> b]
EmptyDict == Dict([k \in {} |-> None])

\* isinstance(x, dict) / isinstance(x, list) / isinstance(x, bytes)
IsDict(x) == x.t = "dict"
IsList(x) == x.t = "list"
IsBytes(x) == x.t = "bytes"

\* `key in d` for a dict d
In(key, d) == key \in DOMAIN d.v

\* a completed call: a returned value or a raised exception
Return(v) == [kind |-> "return", val |-> v]
Raise(e) == [kind |-> "raise", exc |-> e]

\* HTTPStatus.BAD_REQUEST
BAD_REQUEST == 400

\* tornado.web.HTTPError(status_code, reason)
HTTPError(status_code, reason) ==
    [type |-> "HTTPError", status_code |-> status_code, reason |-> reason]

NotImplementedError == [type |-> "NotImplementedError"]

-----------------------------------------------------------------------------
(* KFModel.validate *)

validate_instances_only(request) ==
    IF IsDict(request)
       /\ In("instances", request) /\ ~IsList(request.v["instances"])
    THEN Raise(HTTPError(BAD_REQUEST, Str("Expected \"instances\" or \"inputs\" to be a list")))
    ELSE Return(request)

validate(request) ==
    IF IsDict(request)
       /\ \/ In("instances", request) /\ ~IsList(request.v["instances"])
          \/ In("inputs", request) /\ ~IsList(request.v["inputs"])
    THEN Raise(HTTPError(BAD_REQUEST, Str("Expected \"instances\" or \"inputs\" to be a list")))
    ELSE Return(request)

-----------------------------------------------------------------------------
(* bytes.decode('UTF-8'), json.loads, json.dumps over token sequences *)

Punct(c) == [k |-> "p", v |-> c]
LB == Punct("{")
RB == Punct("}")
LS == Punct("[")
RS == Punct("]")
COLON == Punct(":")
COMMA == Punct(",")
NullTok == [k |-> "lit", v |-> "null"]
\* the decimal digits: str(n) and int(s) for the one-digit numbers of this model
Digits == <<"0", "1", "2", "3", "4", "5", "6", "7", "8", "9">>
IntStr(n) == Digits[n + 1]
StrInt(s) == CHOOSE n \in 0..9 : Digits[n + 1] = s
NumTok(n) == [k |-> "n", v |-> IntStr(n)]
StrTok(s) == [k |-> "s", v |-> s]
\* a byte that no UTF-8 text contains
BadByte == [k |-> "bad", v |-> "xff"]
\* a bare word: valid UTF-8, not JSON
RawTok(s) == [k |-> "raw", v |-> s]

ParseFail == [ok |-> FALSE]
ParseOk(v, n) == [ok |-> TRUE, val |-> v, next |-> n]

RECURSIVE ParseValue(_, _), ParseElements(_, _, _), ParseMembers(_, _, _)

\* the JSON value that starts at toks[i]
ParseValue(toks, i) ==
    IF i > Len(toks) THEN ParseFail
    ELSE LET tk == toks[i] IN
         CASE tk.k = "n" -> ParseOk(Num(StrInt(tk.v)), i + 1)
           [] tk.k = "s" -> ParseOk(Str(tk.v), i + 1)
           [] tk.k = "lit" -> ParseOk(None, i + 1)
           [] tk = LS -> IF i + 1 <= Len(toks) /\ toks[i + 1] = RS
                         THEN ParseOk(List(<<>>), i + 2)
                         ELSE ParseElements(toks, i + 1, <<>>)
           [] tk = LB -> IF i + 1 <= Len(toks) /\ toks[i + 1] = RB
                         THEN ParseOk(EmptyDict, i + 2)
                         ELSE ParseMembers(toks, i + 1, EmptyDict.v)
           [] OTHER -> ParseFail

\* value ("," value)* "]" from toks[i], after the elements acc
ParseElements(toks, i, acc) ==
    LET e == ParseValue(toks, i) IN
    IF ~e.ok \/ e.next > Len(toks) THEN ParseFail
    ELSE IF toks[e.next] = RS THEN ParseOk(List(Append(acc, e.val)), e.next + 1)
    ELSE IF toks[e.next] = COMMA THEN ParseElements(toks, e.next + 1, Append(acc, e.val))
    ELSE ParseFail

\* string ":" value ("," string ":" value)* "}" from toks[i]; a repeated key
\* keeps its last value
ParseMembers(toks, i, acc) ==
    IF i + 1 > Len(toks) \/ toks[i].k # "s" \/ toks[i + 1] # COLON THEN ParseFail
    ELSE LET e == ParseValue(toks, i + 2)
             key == toks[i].v
         IN IF ~e.ok \/ e.next > Len(toks) THEN ParseFail
            ELSE LET d == [x \in DOMAIN acc \cup {key} |->
                              IF x = key THEN e.val ELSE acc[x]]
                 IN IF toks[e.next] = RB THEN ParseOk(Dict(d), e.next + 1)
                    ELSE IF toks[e.next] = COMMA THEN ParseMembers(toks, e.next + 1, d)
                    ELSE ParseFail

\* json.loads(text): the whole text is one JSON value, or JSONDecodeError
json_loads(text) ==
    LET r == ParseValue(text, 1) IN
    IF r.ok /\ r.next = Len(text) + 1 THEN Return(r.val)
    ELSE Raise([type |-> "JSONDecodeError"])

\* b.decode('UTF-8')
decode_utf8(b) ==
    IF \E i \in 1..Len(b) : b[i].k = "bad"
    THEN Raise([type |-> "UnicodeDecodeError"])
    ELSE Return(b)

\* json.loads(b.decode('UTF-8'))
json_loads_bytes(b) ==
    LET s == decode_utf8(b) IN
    IF s.kind = "raise" THEN s ELSE json_loads(s.val)

\* the order in which json.dumps writes the keys of the dicts of this model
KeyOrder ==
    <<"instances", "inputs", "a", "time", "type", "source", "id",
      "specversion", "data", "predictions", "explanations">>

RECURSIVE Serializable(_), DumpsValue(_), DumpsElements(_, _), DumpsMembers(_, _, _)

\* json.dumps raises TypeError on bytes and on objects that are not JSON
Serializable(x) ==
    CASE x.t \in {"None", "int", "str"} -> TRUE
      [] x.t = "list" -> \A i \in 1..Len(x.v) : Serializable(x.v[i])
      [] x.t = "dict" -> \A key \in DOMAIN x.v : Serializable(x.v[key])
      [] OTHER -> FALSE

DumpsValue(x) ==
    CASE x.t = "None" -> <<NullTok>>
      [] x.t = "int" -> <<NumTok(x.v)>>
      [] x.t = "str" -> <<StrTok(x.v)>>
      [] x.t = "list" -> <<LS>> \o DumpsElements(x.v, 1) \o <<RS>>
      [] x.t = "dict" -> <<LB>> \o DumpsMembers(x.v, 1, TRUE) \o <<RB>>

DumpsElements(s, i) ==
    IF i > Len(s) THEN <<>>
    ELSE (IF i > 1 THEN <<COMMA>> ELSE <<>>) \o DumpsValue(s[i]) \o DumpsElements(s, i + 1)

DumpsMembers(d, i, first) ==
    IF i > Len(KeyOrder) THEN <<>>
    ELSE IF KeyOrder[i] \in DOMAIN d
         THEN (IF first THEN <<>> ELSE <<COMMA>>)
              \o <<StrTok(KeyOrder[i]), COLON>> \o DumpsValue(d[KeyOrder[i]])
              \o DumpsMembers(d, i + 1, FALSE)
         ELSE DumpsMembers(d, i + 1, first)

\* json.dumps(x)
json_dumps(x) ==
    IF Serializable(x) THEN Return(DumpsValue(x))
    ELSE Raise([type |-> "TypeError"])

-----------------------------------------------------------------------------
(* KFModel.preprocess *)

CloudEvent(attributes, data) ==
    [t |-> "CloudEvent", _attributes |-> attributes, data |-> data]
ServeRequest(body) == [t |-> "ServeRequest", _body |-> body]
ModelInferRequest(id) == [t |-> "ModelInferRequest", id |-> id]
ModelInferResponse(id) == [t |-> "ModelInferResponse", id |-> id]

\* a coroutine suspended in `await request.body()`
AwaitBody(request) == [kind |-> "await", on |-> request]

\* the keys that make a plain dict a structured event (lines 139-144)
EventKeys == {"time", "type", "source", "id", "specversion", "data"}

JsonContentTypes == {"application/cloudevents+json", "application/json"}

\* preprocess with the plain-dict test reduced to `"data" in request`
preprocess_data_only(request) ==
    IF request.t = "CloudEvent" THEN
        LET response == request.data IN
        IF IsBytes(response) THEN
            LET r == json_loads_bytes(response.v) IN
            IF r.kind = "return" THEN Return(r.val)
            ELSE LET attributes == request._attributes IN
                 IF "content-type" \in DOMAIN attributes
                    /\ attributes["content-type"] \in JsonContentTypes
                 THEN Raise(HTTPError(BAD_REQUEST,
                            Text(<<"Unrecognized request format: ", r.exc.type>>)))
                 ELSE Return(response)
        ELSE Return(response)
    ELSE IF request.t = "ServeRequest" THEN AwaitBody(request)
    ELSE IF IsDict(request) THEN
        IF "data" \in DOMAIN request.v
        THEN Return(request.v["data"])
        ELSE Return(request)
    ELSE Return(request)

\* preprocess with the "specversion" test left out of the plain-dict test
preprocess_no_specversion(request) ==
    IF request.t = "CloudEvent" THEN
        LET response == request.data IN
        IF IsBytes(response) THEN
            LET r == json_loads_bytes(response.v) IN
            IF r.kind = "return" THEN Return(r.val)
            ELSE LET attributes == request._attributes IN
                 IF "content-type" \in DOMAIN attributes
                    /\ attributes["content-type"] \in JsonContentTypes
                 THEN Raise(HTTPError(BAD_REQUEST,
                            Text(<<"Unrecognized request format: ", r.exc.type>>)))
                 ELSE Return(response)
        ELSE Return(response)
    ELSE IF request.t = "ServeRequest" THEN AwaitBody(request)
    ELSE IF IsDict(request) THEN
        IF (EventKeys \ {"specversion"}) \subseteq DOMAIN request.v
        THEN Return(request.v["data"])
        ELSE Return(request)
    ELSE Return(request)

\* preprocess raising on every undecodable byte buffer, whatever the content-type
preprocess_always_raise(request) ==
    IF request.t = "CloudEvent" THEN
        LET response == request.data IN
        IF IsBytes(response) THEN
            LET r == json_loads_bytes(response.v) IN
            IF r.kind = "return" THEN Return(r.val)
            ELSE Raise(HTTPError(BAD_REQUEST,
                       Text(<<"Unrecognized request format: ", r.exc.type>>)))
        ELSE Return(response)
    ELSE IF request.t = "ServeRequest" THEN AwaitBody(request)
    ELSE IF IsDict(request) THEN
        IF EventKeys \subseteq DOMAIN request.v
        THEN Return(request.v["data"])
        ELSE Return(request)
    ELSE Return(request)

\* the body of preprocess up to its first suspension
preprocess(request) ==
    IF request.t = "CloudEvent" THEN
        LET response == request.data IN
        IF IsBytes(response) THEN
            LET r == json_loads_bytes(response.v) IN
            IF r.kind = "return" THEN Return(r.val)
            ELSE LET attributes == request._attributes IN
                 IF "content-type" \in DOMAIN attributes
                    /\ attributes["content-type"] \in JsonContentTypes
                 THEN Raise(HTTPError(BAD_REQUEST,
                            Text(<<"Unrecognized request format: ", r.exc.type>>)))
                 ELSE Return(response)
        ELSE Return(response)
    ELSE IF request.t = "ServeRequest" THEN AwaitBody(request)
    ELSE IF IsDict(request) THEN
        IF EventKeys \subseteq DOMAIN request.v
        THEN Return(request.v["data"])
        ELSE Return(request)
    ELSE Return(request)

\* preprocess resumed when request.body() resolves: `return await request.body()`
preprocess_resume(request) == Return(request._body)

\* preprocess run to completion
Decode(request) ==
    LET r == preprocess(request) IN
    IF r.kind = "await" THEN preprocess_resume(r.on) ELSE r

-----------------------------------------------------------------------------
(* KFModel.__init__ *)

REST_V1 == "v1"
REST_V2 == "v2"
GRPC_V2 == "grpc-v2"
PredictorProtocol == {REST_V1, REST_V2, GRPC_V2}

\* self.timeout
DefaultTimeout == 600

\* the instance as __init__ leaves it
NewModel(name) ==
    [name |-> name,
     ready |-> FALSE,
     protocol |-> REST_V1,
     predictor_host |-> None,
     explainer_host |-> None,
     timeout |-> DefaultTimeout,
     _http_client_instance |-> None,
     _grpc_client_stub |-> None]

Tasks == {"t1", "t2"}

NoOutcome == <<>>

\* ModelType; NoModelType stands for any argument that is no ModelType member
EXPLAINER == "EXPLAINER"
PREDICTOR == "PREDICTOR"
NoModelType == "None"

\* a task that runs no __call__
IdleTask ==
    [pc |-> "idle", body |-> None, model_type |-> NoModelType, request |-> None,
     stages |-> <<>>, sent |-> <<>>, got |-> <<>>,
     returned |-> NoOutcome, raised |-> NoOutcome]

-----------------------------------------------------------------------------
(* URL templates and str.format *)

PREDICTOR_URL_FORMAT == <<"http://", "{0}", "/v1/models/", "{1}", ":predict">>
EXPLAINER_URL_FORMAT == <<"http://", "{0}", "/v1/models/", "{1}", ":explain">>
PREDICTOR_V2_URL_FORMAT == <<"http://", "{0}", "/v2/models/", "{1}", "/infer">>
EXPLAINER_V2_URL_FORMAT == <<"http://", "{0}", "/v2/models/", "{1}", "/explain">>

\* str(x) as pieces
StrOf(x) == IF x.t = "text" THEN x.v ELSE <<x.t>>

RECURSIVE FormatFrom(_, _, _, _)
FormatFrom(fmt, i, a0, a1) ==
    IF i > Len(fmt) THEN <<>>
    ELSE (CASE fmt[i] = "{0}" -> StrOf(a0)
            [] fmt[i] = "{1}" -> StrOf(a1)
            [] OTHER -> <<fmt[i]>>) \o FormatFrom(fmt, i + 1, a0, a1)

\* fmt.format(a0, a1)
Format(fmt, a0, a1) == Text(FormatFrom(fmt, 1, a0, a1))

\* `not x` for a host: None and the empty string are false
Falsy(x) == x = None \/ (x.t = "text" /\ x.v = <<>>)

\* `":" in host`
HasColon(host) == \E i \in 1..Len(host.v) : host.v[i] = ":"

-----------------------------------------------------------------------------
(* KFModel.__call__ and the methods it runs.  An environment e holds the   *)
(* instance (e.self), the construction counters (e.made) and the record of *)
(* the running task (e.task); each method maps an environment to the       *)
(* environment at its return, raise or suspension.                         *)

Enter(e, stage) == [e EXCEPT !.task.stages = Append(@, stage)]

\* __call__ raising exc and handing a response to the caller as well
Raised_with_response(e, exc) ==
    [e EXCEPT !.task.pc = "done", !.task.raised = <<exc>>, !.task.returned = <<None>>]

\* __call__ ends by raising exc
Raised(e, exc) == [e EXCEPT !.task.pc = "done", !.task.raised = <<exc>>]

\* __call__ ends by returning v
Returned(e, v) == [e EXCEPT !.task.pc = "done", !.task.returned = <<v>>]

\* the outbound call completes with the outcome o (a response or a fault)
Got(e, o) == [e EXCEPT !.task.got = Append(@, o)]

\* the outbound call is issued and the task suspends until it completes
Suspended(e, pc, call) ==
    [e EXCEPT !.task.pc = pc, !.task.sent = Append(@, call)]

\* _http_client without the cache: a new client at every access
http_client_uncached(e) ==
    [e EXCEPT !.self._http_client_instance =
                  [t |-> "AsyncHTTPClient", id |-> e.made.http + 1],
              !.made.http = @ + 1]

\* property _http_client (lines 76-80)
http_client(e) ==
    IF e.self._http_client_instance = None
    THEN [e EXCEPT !.self._http_client_instance =
                       [t |-> "AsyncHTTPClient", id |-> e.made.http + 1],
                   !.made.http = @ + 1]
    ELSE e

\* _grpc_client appending the port and building a stub at every access
grpc_client_append_always(e) ==
    LET host == Text(e.self.predictor_host.v \o <<":", "80">>)
    IN [e EXCEPT !.self.predictor_host = host,
                 !.self._grpc_client_stub =
                     [t |-> "GRPCInferenceServiceStub",
                      id |-> e.made.grpc + 1, target |-> host],
                 !.made.grpc = @ + 1]

\* _grpc_client binding the stub to the host as it is
grpc_client_no_port(e) ==
    IF e.self._grpc_client_stub = None
    THEN [e EXCEPT !.self._grpc_client_stub =
                       [t |-> "GRPCInferenceServiceStub",
                        id |-> e.made.grpc + 1, target |-> e.self.predictor_host],
                   !.made.grpc = @ + 1]
    ELSE e

\* property _grpc_client (lines 82-90)
grpc_client(e) ==
    IF e.self._grpc_client_stub = None
    THEN LET host == IF ~HasColon(e.self.predictor_host)
                     THEN Text(e.self.predictor_host.v \o <<":", "80">>)
                     ELSE e.self.predictor_host
         IN [e EXCEPT !.self.predictor_host = host,
                      !.self._grpc_client_stub =
                          [t |-> "GRPCInferenceServiceStub",
                           id |-> e.made.grpc + 1, target |-> host],
                      !.made.grpc = @ + 1]
    ELSE e

\* self._http_client.fetch(url, method='POST', request_timeout=.., body=json.dumps(request)):
\* the client is looked up, then the body is serialized, then the request goes out
fetch(e, url, request) ==
    LET e1 == http_client(e)
        body == json_dumps(request)
    IN IF body.kind = "raise" THEN Raised(e1, body.exc)
       ELSE Suspended(e1, "http_await",
                [via |-> "http", client |-> e1.self._http_client_instance,
                 target |-> url, method |-> "POST",
                 timeout |-> e1.self.timeout, body |-> Bytes(body.val)])

\* the URL _http_predict posts to (lines 161-163)
predict_url(me) ==
    IF me.protocol = REST_V2
    THEN Format(PREDICTOR_V2_URL_FORMAT, me.predictor_host, me.name)
    ELSE Format(PREDICTOR_URL_FORMAT, me.predictor_host, me.name)

\* explain_url with the predictor's host in the v2 form
explain_url_predictor_host(me) ==
    IF me.protocol = REST_V2
    THEN Format(EXPLAINER_V2_URL_FORMAT, me.predictor_host, me.name)
    ELSE Format(EXPLAINER_URL_FORMAT, me.explainer_host, me.name)

\* the URL explain posts to (lines 203-205)
explain_url(me) ==
    IF me.protocol = REST_V2
    THEN Format(EXPLAINER_V2_URL_FORMAT, me.explainer_host, me.name)
    ELSE Format(EXPLAINER_URL_FORMAT, me.explainer_host, me.name)

\* _http_predict up to the await of fetch (lines 160-169)
http_predict(e, request) == fetch(e, predict_url(e.self), request)

\* _grpc_predict up to the await of ModelInfer (lines 176-177)
grpc_predict(e, request) ==
    LET e1 == grpc_client(e) IN
    Suspended(e1, "grpc_await",
        [via |-> "grpc", client |-> e1.self._grpc_client_stub,
         target |-> e1.self._grpc_client_stub.target, method |-> "ModelInfer",
         timeout |-> e1.self.timeout, body |-> request])

\* predict without the test of predictor_host
predict_no_host_check(e, request) ==
    IF e.self.protocol = GRPC_V2 /\ e.self.predictor_host # None
    THEN grpc_predict(e, request)
    ELSE http_predict(e, request)

\* predict posting over HTTP whatever the protocol
predict_http_only(e, request) ==
    IF Falsy(e.self.predictor_host) THEN Raised(e, NotImplementedError)
    ELSE http_predict(e, request)

\* predict up to its first suspension (lines 180-192)
predict(e, request) ==
    IF Falsy(e.self.predictor_host) THEN Raised(e, NotImplementedError)
    ELSE IF e.self.protocol = GRPC_V2 THEN grpc_predict(e, request)
    ELSE http_predict(e, request)

\* explain without the test of explainer_host
explain_no_host_check(e, request) == fetch(e, explain_url(e.self), request)

\* explain up to its first suspension (lines 194-211)
explain(e, request) ==
    IF e.self.explainer_host = None THEN Raised(e, NotImplementedError)
    ELSE fetch(e, explain_url(e.self), request)

\* InferResult(response).get_response(as_json=True)
get_response(response) ==
    Dict([key \in {"id", "outputs"} |->
             IF key = "id" THEN Str(IntStr(response.id)) ELSE List(<<>>)])

\* postprocess handing every response on as it came
postprocess_pass_through(response) == response

\* postprocess (lines 149-158)
postprocess(response) ==
    IF response.t = "ModelInferResponse" THEN get_response(response)
    ELSE response

\* __call__ from line 64 on with the result of validate ignored
call_without_validate(e, pre) ==
    IF pre.kind = "raise" THEN Raised(e, pre.exc)
    ELSE LET e2 == [Enter(e, "validate") EXCEPT !.task.request = pre.val] IN
         IF e2.task.model_type = EXPLAINER
         THEN explain(Enter(e2, "explain"), pre.val)
         ELSE IF e2.task.model_type = PREDICTOR
         THEN predict(Enter(e2, "predict"), pre.val)
         ELSE Raised(e2, NotImplementedError)

\* __call__ from line 64 on dispatching to predict whatever the model_type
call_from_validate_always_predict(e, pre) ==
    IF pre.kind = "raise" THEN Raised(e, pre.exc)
    ELSE LET v == validate(pre.val)
             e1 == Enter(e, "validate")
         IN IF v.kind = "raise" THEN Raised(e1, v.exc)
            ELSE predict(Enter([e1 EXCEPT !.task.request = v.val], "predict"), v.val)

\* __call__ from line 64 on, with the outcome pre of preprocess, up to the
\* first suspension of the dispatched stage
call_from_validate(e, pre) ==
    IF pre.kind = "raise" THEN Raised(e, pre.exc)
    ELSE LET v == validate(pre.val)
             e1 == Enter(e, "validate")
         IN IF v.kind = "raise" THEN Raised(e1, v.exc)
            ELSE LET e2 == [e1 EXCEPT !.task.request = v.val] IN
                 IF e2.task.model_type = EXPLAINER
                 THEN explain(Enter(e2, "explain"), v.val)
                 ELSE IF e2.task.model_type = PREDICTOR
                 THEN predict(Enter(e2, "predict"), v.val)
                 ELSE Raised(e2, NotImplementedError)

\* __call__ from its first line up to its first suspension (lines 61-74)
call(e, body, model_type) ==
    LET e1 == Enter([e EXCEPT !.task.body = body, !.task.model_type = model_type],
                    "preprocess")
        pre == preprocess(body)
    IN IF pre.kind = "await" THEN [e1 EXCEPT !.task.pc = "body_await"]
       ELSE call_from_validate(e1, pre)

\* __call__ from the return of the dispatched stage (lines 73-74)
call_from_postprocess(e, response) ==
    Returned(Enter(e, "postprocess"), postprocess(response))

\* the return of fetch handled without the test of response.code
call_from_fetch_any_status(e, response) ==
    LET r == json_loads_bytes(response.body.v) IN
    IF r.kind = "raise" THEN Raised(e, r.exc)
    ELSE call_from_postprocess(e, r.val)

\* the return of fetch with the request sent again on a code other than 200
call_from_fetch_retry(e, response) ==
    IF response.code # 200
    THEN Suspended(e, "http_await", e.task.sent[1])
    ELSE LET r == json_loads_bytes(response.body.v) IN
         IF r.kind = "raise" THEN Raised(e, r.exc)
         ELSE call_from_postprocess(e, r.val)

\* _http_predict and explain from the return of fetch (lines 170-174, 212-216),
\* and the rest of __call__
call_from_fetch(e, response) ==
    IF response.code # 200
    THEN Raised(e, HTTPError(response.code, response.body))
    ELSE LET r == json_loads_bytes(response.body.v) IN
         IF r.kind = "raise" THEN Raised(e, r.exc)
         ELSE call_from_postprocess(e, r.val)

-----------------------------------------------------------------------------
(* The serving unit under concurrent calls *)

Names == {Text(<<"m">>)}
PredictorHosts == {None, Text(<<>>), Text(<<"ph">>), Text(<<"ph", ":", "8080">>)}
ExplainerHosts == {None, Text(<<>>), Text(<<"eh">>)}

\* request bodies handed to __call__
Bodies ==
    {Dict([key \in {"instances"} |-> List(<<Num(1)>>)]),
     Dict([key \in {"instances"} |-> Num(1)]),
     CloudEvent([key \in {"content-type"} |-> "application/json"],
                Bytes(<<LB, StrTok("inputs"), COLON, LS, NumTok(1), RS, RB>>)),
     CloudEvent([key \in {"content-type"} |-> "application/json"], Bytes(<<BadByte>>)),
     CloudEvent([key \in {"content-type"} |-> "text/plain"], Bytes(<<BadByte>>)),
     ServeRequest(Dict([key \in {"inputs"} |-> Str("x")])),
     ServeRequest(Dict([key \in {"inputs"} |-> List(<<>>)])),
     ModelInferRequest(1)}

ModelTypes == {EXPLAINER, PREDICTOR, NoModelType}

\* what the HTTP backend may answer: response.code and response.body
HttpResponses ==
    {[kind |-> "response", code |-> 200,
      body |-> Bytes(<<LB, StrTok("predictions"), COLON, LS, NumTok(1), RS, RB>>)],
     [kind |-> "response", code |-> 200, body |-> Bytes(<<RawTok("boom")>>)],
     [kind |-> "response", code |-> 500, body |-> Bytes(<<RawTok("boom")>>)]}

\* what fetch may raise instead of returning: the timeout (599) and a refused connection
HttpFaults ==
    {[kind |-> "fault", type |-> "HTTPTimeoutError"],
     [kind |-> "fault", type |-> "ConnectionRefusedError"]}

\* what ModelInfer may raise instead of returning
GrpcFaults == {[kind |-> "fault", type |-> "AioRpcError"]}

Init ==
    /\ \E name \in Names, protocol \in PredictorProtocol,
          predictor_host \in PredictorHosts, explainer_host \in ExplainerHosts :
          self = [NewModel(name) EXCEPT !.protocol = protocol,
                                        !.predictor_host = predictor_host,
                                        !.explainer_host = explainer_host]
    /\ config = self
    /\ task = [t \in Tasks |-> IdleTask]
    /\ made = [http |-> 0, grpc |-> 0]
    /\ fpc = "off"
    /\ arg = None
    /\ ret = NoOutcome

Env(t) == [self |-> self, made |-> made, task |-> task[t]]

\* the state after task t ran to the environment e
Step(t, e) ==
    /\ self' = e.self
    /\ made' = e.made
    /\ task' = [task EXCEPT ![t] = e.task]
    /\ UNCHANGED <<fpc, arg, ret, config>>

\* load() (lines 103-110)
Load ==
    /\ ~self.ready
    /\ self' = [self EXCEPT !.ready = TRUE]
    /\ UNCHANGED <<task, made, fpc, arg, ret, config>>

\* a caller starts __call__(body, model_type) as task t, its arguments among
\* bodies and model_types
CallWith(t, bodies, model_types) ==
    /\ task[t].pc = "idle"
    /\ \E body \in bodies, model_type \in model_types :
          Step(t, call(Env(t), body, model_type))

Call(t) == CallWith(t, Bodies, ModelTypes)

\* request.body() resolves and preprocess returns it
BodyReady(t) ==
    /\ task[t].pc = "body_await"
    /\ Step(t, call_from_validate(Env(t), preprocess_resume(task[t].body)))

\* fetch returns a response
HttpReply(t) ==
    /\ task[t].pc = "http_await"
    /\ \E response \in HttpResponses :
          Step(t, call_from_fetch(Got(Env(t), response), response))

\* fetch raises
HttpFault(t) ==
    /\ task[t].pc = "http_await"
    /\ \E exc \in HttpFaults : Step(t, Raised(Got(Env(t), exc), exc))

\* ModelInfer returns a ModelInferResponse (the stub only answers a typed request)
GrpcReply(t) ==
    /\ task[t].pc = "grpc_await"
    /\ task[t].request.t = "ModelInferRequest"
    /\ LET response == ModelInferResponse(task[t].request.id) IN
        Step(t, call_from_postprocess(
                    Got(Env(t), [kind |-> "response", message |-> response]), response))

\* ModelInfer raises
GrpcFault(t) ==
    /\ task[t].pc = "grpc_await"
    /\ \E exc \in GrpcFaults : Step(t, Raised(Got(Env(t), exc), exc))

\* the caller has the outcome; the task is free for the next call
Collect(t) ==
    /\ task[t].pc = "done"
    /\ task' = [task EXCEPT ![t] = IdleTask]
    /\ UNCHANGED <<self, made, fpc, arg, ret, config>>

Next ==
    \/ Load
    \/ \E t \in Tasks : Call(t)
    \/ \E t \in Tasks : BodyReady(t)
    \/ \E t \in Tasks : HttpReply(t)
    \/ \E t \in Tasks : HttpFault(t)
    \/ \E t \in Tasks : GrpcReply(t)
    \/ \E t \in Tasks : GrpcFault(t)
    \/ \E t \in Tasks : Collect(t)

Spec == Init /\ [][Next]_vars

\* Every await resumes: request.body() resolves, and fetch and ModelInfer end
\* with a reply, a fault or the timeout self.timeout.
Fairness ==
    \A t \in Tasks :
        /\ WF_vars(BodyReady(t))
        /\ WF_vars(HttpReply(t) \/ HttpFault(t))
        /\ WF_vars(GrpcReply(t) \/ GrpcFault(t))

\* the bodies of the calls whose completion is checked: one for each way
\* through __call__ (a suspending preprocess, a failing validate, a payload
\* for HTTP, a payload for gRPC)
LiveBodies ==
    {Dict([key \in {"instances"} |-> List(<<Num(1)>>)]),
     Dict([key \in {"instances"} |-> Num(1)]),
     ServeRequest(Dict([key \in {"inputs"} |-> List(<<>>)])),
     ModelInferRequest(1)}

LiveCall(t) == CallWith(t, LiveBodies, {EXPLAINER, PREDICTOR})

FairNext ==
    \/ \E t \in Tasks : LiveCall(t)
    \/ \E t \in Tasks : BodyReady(t)
    \/ \E t \in Tasks : HttpReply(t)
    \/ \E t \in Tasks : HttpFault(t)
    \/ \E t \in Tasks : GrpcReply(t)
    \/ \E t \in Tasks : GrpcFault(t)
    \/ \E t \in Tasks : Collect(t)

FairSpec == Init /\ [][FairNext]_vars /\ Fairness


-----------------------------------------------------------------------------
(* The stages validate and preprocess run on their own *)

\* longest byte buffer tried as CloudEvent data
MaxBytesLen == 5

\* values of a key of a payload handed to validate
FieldVals ==
    {List(<<>>), List(<<Num(1)>>), Num(1), Str("x"), None, EmptyDict}

ValidateKeys == {"instances", "inputs", "a"}

ValidateInputs ==
    {Dict(f) : f \in UNION {[S -> FieldVals] : S \in SUBSET ValidateKeys}}
    \cup {List(<<Num(1)>>), Str("x"), Num(1), None, Bytes(<<NumTok(1)>>),
          ModelInferRequest(1)}

\* a plain dict with the event keys S, every key but data holding a string
EventDict(S, data) ==
    Dict([key \in S |-> IF key = "data" THEN data ELSE Str("x")])

DataVals ==
    {Num(1), None, List(<<Num(1)>>), Dict([key \in {"instances"} |-> List(<<Num(1)>>)]),
     Dict([key \in {"data"} |-> Num(1)]),
     EventDict(EventKeys, Num(1)),
     EventDict(EventKeys \ {"specversion"}, Num(1))}

DictInputs ==
    {EventDict(S, d) : S \in SUBSET EventKeys, d \in DataVals}
    \cup {EmptyDict, Dict([key \in {"instances"} |-> List(<<Num(1)>>)])}

ByteAlphabet == {LB, RB, LS, RS, COLON, StrTok("a"), NumTok(1), BadByte}

ByteBufs == UNION {[1..n -> ByteAlphabet] : n \in 0..MaxBytesLen}

ContentTypes ==
    {"application/json", "application/cloudevents+json", "text/plain"}

\* CloudEvent._attributes with and without a content-type
AttributeSets ==
    {[key \in {"content-type", "id"} |-> IF key = "id" THEN "1" ELSE c] : c \in ContentTypes}
    \cup {[key \in {"id"} |-> "1"]}

\* CloudEvent data that is no byte buffer
OtherData == {Dict([key \in {"a"} |-> Num(1)]), Str("x"), None}

ServeRequestInputs ==
    {ServeRequest(b) : b \in {Bytes(<<LB, RB>>), Bytes(<<BadByte>>),
                              EventDict(EventKeys, Num(1))}}

\* the requests that are no CloudEvent
DecodeInputs ==
    DictInputs \cup ServeRequestInputs
    \cup {List(<<Num(1)>>), Str("x"), Num(1), None, Bytes(<<LB, RB>>),
          ModelInferRequest(1)}

IdleUnit ==
    /\ self = NewModel(Text(<<"m">>))
    /\ config = self
    /\ task = [t \in Tasks |-> IdleTask]
    /\ made = [http |-> 0, grpc |-> 0]

InitValidate ==
    /\ IdleUnit
    /\ fpc = "ready"
    /\ arg \in ValidateInputs
    /\ ret = NoOutcome

\* one call of validate(arg)
ValidateStep ==
    /\ fpc = "ready"
    /\ ret' = <<validate(arg)>>
    /\ fpc' = "done"
    /\ UNCHANGED <<self, task, made, arg, config>>

SpecValidate == InitValidate /\ [][ValidateStep]_vars

InitDecode ==
    /\ IdleUnit
    /\ fpc = "ready"
    /\ \/ arg \in DecodeInputs
       \/ \E a \in AttributeSets, d \in OtherData : arg = CloudEvent(a, d)
       \/ \E a \in AttributeSets, b \in ByteBufs : arg = CloudEvent(a, Bytes(b))
    /\ ret = NoOutcome

\* preprocess(arg) up to its return, its raise or its suspension
DecodeStep ==
    /\ fpc = "ready"
    /\ LET r == preprocess(arg) IN
        /\ ret' = <<r>>
        /\ fpc' = IF r.kind = "await" THEN "awaiting" ELSE "done"
    /\ UNCHANGED <<self, task, made, arg, config>>

\* request.body() resolves
DecodeResume ==
    /\ fpc = "awaiting"
    /\ ret' = <<preprocess_resume(ret[1].on)>>
    /\ fpc' = "done"
    /\ UNCHANGED <<self, task, made, arg, config>>

\* preprocess applied to what preprocess(arg) returned
DecodeAgain ==
    /\ fpc = "done"
    /\ ret[1].kind = "return"
    /\ ret' = Append(ret, Decode(ret[1].val))
    /\ fpc' = "done2"
    /\ UNCHANGED <<self, task, made, arg, config>>

NextDecode == DecodeStep \/ DecodeResume \/ DecodeAgain

SpecDecode == InitDecode /\ [][NextDecode]_vars

-----------------------------------------------------------------------------
(* __call__ on a subclass that overrides preprocess, predict and explain *)

\* a method of the subclass: written with `async def` or with `def`, and what
\* its body comes to (a return or a raise)
Method(async, outcome) == [async |-> async, outcome |-> outcome]

\* the coroutine object a call of an `async def` method gives
Coroutine(outcome) == [t |-> "coroutine", outcome |-> outcome]

\* a test that takes every method for a plain function
iscoroutinefunction_never(f) == FALSE

\* inspect.iscoroutinefunction(f)
iscoroutinefunction(f) == f.async

\* f(x): the body of a plain function runs, an `async def` gives its coroutine
Apply(f) == IF f.async THEN Return(Coroutine(f.outcome)) ELSE f.outcome

\* `await f(x) if inspect.iscoroutinefunction(f) else f(x)` up to the await
await_or_call(f) ==
    IF iscoroutinefunction(f) THEN [kind |-> "await", on |-> Apply(f).val]
    ELSE Apply(f)

\* the awaited coroutine resolves or fails
Resolve(c) == c.outcome

\* the postprocess KFModel defines, which a subclass may inherit
Inherited == [inherited |-> TRUE]

\* self.postprocess(response): KFModel's own or the body of the override
apply_postprocess(f, response) ==
    IF "inherited" \in DOMAIN f THEN Return(postprocess(response))
    ELSE f.outcome

\* __call__ handing the caller an HTTPError 500 for whatever postprocess raises
call_stages_from_postprocess_wrapping(e, m, r) ==
    IF r.kind = "raise" THEN Raised(e, r.exc)
    ELSE LET e1 == Enter(e, "postprocess")
             o == apply_postprocess(m.postprocess, r.val)
         IN IF o.kind = "raise"
            THEN Raised(e1, HTTPError(500, Text(<<o.exc.type>>)))
            ELSE Returned(e1, o.val)

\* __call__ lines 73-74 after the stage of the model_type ended with r
call_stages_from_postprocess(e, m, r) ==
    IF r.kind = "raise" THEN Raised(e, r.exc)
    ELSE LET e1 == Enter(e, "postprocess")
             o == apply_postprocess(m.postprocess, r.val)
         IN IF o.kind = "raise" THEN Raised(e1, o.exc) ELSE Returned(e1, o.val)

\* the stage f of the model_type (lines 66-67, 69-70) up to its await
call_stages_dispatch(e, m, f) ==
    LET r == await_or_call(f) IN
    IF r.kind = "await" THEN [e EXCEPT !.task.pc = "stage_await", !.on = r.on]
    ELSE call_stages_from_postprocess(e, m, r)

\* __call__ from line 64 on with the outcome pre of the subclass's preprocess
call_stages_from_validate(e, m, pre) ==
    IF pre.kind = "raise" THEN Raised(e, pre.exc)
    ELSE LET v == validate(pre.val)
             e1 == Enter(e, "validate")
         IN IF v.kind = "raise" THEN Raised(e1, v.exc)
            ELSE LET e2 == [e1 EXCEPT !.task.request = v.val] IN
                 IF e2.task.model_type = EXPLAINER
                 THEN call_stages_dispatch(Enter(e2, "explain"), m, m.explain)
                 ELSE IF e2.task.model_type = PREDICTOR
                 THEN call_stages_dispatch(Enter(e2, "predict"), m, m.predict)
                 ELSE Raised(e2, NotImplementedError)

\* __call__ (lines 61-74) on a subclass with the methods m, up to its first await
call_stages(e, m, body, model_type) ==
    LET e1 == Enter([e EXCEPT !.task.body = body, !.task.model_type = model_type],
                    "preprocess")
        pre == await_or_call(m.preprocess)
    IN IF pre.kind = "await"
       THEN [e1 EXCEPT !.task.pc = "preprocess_await", !.on = pre.on]
       ELSE call_stages_from_validate(e1, m, pre)

\* what an overriding preprocess may come to
PreprocessOutcomes ==
    {Return(Dict([key \in {"instances"} |-> List(<<Num(1)>>)])),
     Return(Dict([key \in {"instances"} |-> Num(1)])),
     Return(Bytes(<<LB, RB>>)),
     Raise([type |-> "ValueError"])}

\* the bodies the subclass is called with
StageBodies ==
    {Dict([key \in {"instances"} |-> List(<<Num(1)>>)]),
     CloudEvent([key \in {"content-type"} |-> "application/json"], Bytes(<<BadByte>>))}

\* the preprocess of the subclass: an override, or KFModel's coroutine function
PreprocessMethods(body) ==
    {Method(a, pre) : a \in BOOLEAN, pre \in PreprocessOutcomes}
    \cup {Method(TRUE, Decode(body))}

\* the postprocess of the subclass: KFModel's, or an override that raises
PostprocessMethods ==
    {Inherited,
     Method(FALSE, Raise([type |-> "KeyError"])),
     Method(FALSE, Raise(HTTPError(BAD_REQUEST, Text(<<"no outputs">>))))}

\* what an overriding predict or explain may come to
StageOutcomes ==
    {Return(Dict([key \in {"predictions"} |-> List(<<Num(1)>>)])),
     Return(ModelInferResponse(1)),
     Raise([type |-> "RuntimeError"])}

InitStages ==
    /\ IdleUnit
    /\ fpc = "ready"
    /\ \E body \in StageBodies, a \in [predict : BOOLEAN, explain : BOOLEAN],
          p \in StageOutcomes, x \in StageOutcomes, model_type \in ModelTypes :
          \E pre \in PreprocessMethods(body), post \in PostprocessMethods :
             arg = [m |-> [preprocess |-> pre,
                           predict |-> Method(a.predict, p),
                           explain |-> Method(a.explain, x),
                           postprocess |-> post],
                    body |-> body, model_type |-> model_type]
    /\ ret = [task |-> IdleTask, on |-> None]

\* the stand-alone call as an environment of the stage operators
StagesEnv == [self |-> self, made |-> made, task |-> ret.task, on |-> ret.on]

\* the stand-alone call went on to the environment e
StagesStep(e) ==
    /\ ret' = [task |-> e.task, on |-> e.on]
    /\ fpc' = e.task.pc
    /\ UNCHANGED <<self, task, made, arg, config>>

\* __call__(body, model_type) on the subclass starts
StagesCall ==
    /\ fpc = "ready"
    /\ StagesStep(call_stages(StagesEnv, arg.m, arg.body, arg.model_type))

\* the awaited preprocess resolves or fails
StagesPreprocessDone ==
    /\ fpc = "preprocess_await"
    /\ StagesStep(call_stages_from_validate([StagesEnv EXCEPT !.on = None],
                                            arg.m, Resolve(ret.on)))

\* the awaited predict or explain resolves or fails
StagesDispatchDone ==
    /\ fpc = "stage_await"
    /\ StagesStep(call_stages_from_postprocess([StagesEnv EXCEPT !.on = None],
                                               arg.m, Resolve(ret.on)))

NextStages == StagesCall \/ StagesPreprocessDone \/ StagesDispatchDone

SpecStages == InitStages /\ [][NextStages]_vars

-----------------------------------------------------------------------------
(* Claims about validate *)

\* `instances` or `inputs` is present in the dict p and is no list
BadShape(p) ==
    \E key \in {"instances", "inputs"} : key \in DOMAIN p.v /\ p.v[key].t # "list"

\* C1: validate(p) raises HTTPError 400 for every dict p in which `instances`
\* or `inputs` is present and not a list, and returns p itself for every
\* other dict and for every p that is no dict.
C1_Validate ==
    fpc = "done" =>
        IF arg.t = "dict" /\ BadShape(arg)
        THEN /\ ret[1].kind = "raise"
             /\ ret[1].exc.type = "HTTPError"
             /\ ret[1].exc.status_code = 400
        ELSE ret[1] = [kind |-> "return", val |-> arg]

\* a dict whose `instances` is a list and whose `inputs` is not was rejected
C1_Witness ==
    /\ fpc = "done"
    /\ arg.t = "dict"
    /\ {"instances", "inputs"} \subseteq DOMAIN arg.v
    /\ arg.v["instances"].t = "list"
    /\ arg.v["inputs"].t = "int"
    /\ ret[1].kind = "raise"

-----------------------------------------------------------------------------
(* Claims about preprocess *)

\* the dict p holds all six event keys
EventShaped(p) ==
    p.t = "dict"
    /\ \A key \in {"time", "type", "source", "id", "specversion", "data"} :
           key \in DOMAIN p.v

\* C7 as stated: for every dict p, decoding the decoded p changes nothing.
C7_Idempotent ==
    (fpc = "done2" /\ arg.t = "dict") => ret[2] = ret[1]

\* C7 amended: decoding the decoded p changes nothing for every dict p,
\* except when p holds all six event keys and its data is again a dict
\* that holds all six (preprocess unwraps one layer per call).
C7_IdempotentUnlessNested ==
    (fpc = "done2" /\ arg.t = "dict"
        /\ ~(EventShaped(arg) /\ EventShaped(arg.v["data"])))
    => ret[2] = ret[1]

\* an event-shaped dict was unwrapped once, and the second call kept its data
C7_Witness ==
    /\ fpc = "done2"
    /\ EventShaped(arg)
    /\ arg.v["data"].t = "dict"
    /\ ret[1] = [kind |-> "return", val |-> arg.v["data"]]
    /\ ret[2] = ret[1]

\* the byte buffer b holds the JSON text {"a":1}
IsExampleJson(b) ==
    b = <<Punct("{"), StrTok("a"), Punct(":"), NumTok(1), Punct("}")>>

\* C8: preprocess of a CloudEvent returns its data; a bytes data that is
\* UTF-8 JSON is returned parsed; a bytes data that is not raises
\* HTTPError 400 exactly when the content-type attribute is application/json
\* or application/cloudevents+json, and is returned as it is otherwise.
C8_CloudEvent ==
    (fpc = "done" /\ arg.t = "CloudEvent") =>
        IF arg.data.t # "bytes" THEN ret[1] = [kind |-> "return", val |-> arg.data]
        ELSE LET parsed == json_loads_bytes(arg.data.v)
                 declared == IF "content-type" \in DOMAIN arg._attributes
                             THEN arg._attributes["content-type"] ELSE "(none)"
                 isJson == declared \in {"application/json", "application/cloudevents+json"}
             IN /\ parsed.kind = "return" => ret[1] = parsed
                /\ IsExampleJson(arg.data.v) =>
                       ret[1] = [kind |-> "return", val |-> Dict([key \in {"a"} |-> Num(1)])]
                /\ parsed.kind = "raise" =>
                       /\ ret[1].kind = "raise" <=> isJson
                       /\ isJson => /\ ret[1].exc.type = "HTTPError"
                                    /\ ret[1].exc.status_code = 400
                       /\ ~isJson => ret[1] = [kind |-> "return", val |-> arg.data]

\* bytes that are no JSON under content-type application/json were rejected
C8_Witness ==
    /\ fpc = "done"
    /\ arg.t = "CloudEvent"
    /\ arg.data.t = "bytes"
    /\ arg.data.v = <<Punct("{"), StrTok("a"), Punct(":")>>
    /\ "content-type" \in DOMAIN arg._attributes
    /\ arg._attributes["content-type"] = "application/json"
    /\ ret[1].kind = "raise"

\* C9: preprocess of a plain dict returns its `data` exactly when the dict
\* holds all six event keys; a dict that misses one of them, and any input
\* that is no CloudEvent, no ServeRequest and no such dict, is returned as it is.
C9_PlainDict ==
    (fpc = "done" /\ arg.t \notin {"CloudEvent", "ServeRequest"}) =>
        IF EventShaped(arg)
        THEN ret[1] = [kind |-> "return", val |-> arg.v["data"]]
        ELSE ret[1] = [kind |-> "return", val |-> arg]

\* a dict with `data` and four more event keys, no specversion, came back whole
C9_Witness ==
    /\ fpc = "done"
    /\ arg.t = "dict"
    /\ DOMAIN arg.v = {"time", "type", "source", "id", "data"}
    /\ ret[1] = [kind |-> "return", val |-> arg]

-----------------------------------------------------------------------------
(* Claims about __call__ *)

\* task t is in a call whose preprocess has completed
Decoded(t) == task[t].pc \notin {"idle", "body_await"}

\* the payload preprocess produced for the body of task t fails validation
FailsValidation(t) ==
    LET p == Decode(task[t].body) IN
    p.kind = "return" /\ p.val.t = "dict" /\ BadShape(p.val)

\* the body of task t passes preprocess and validate
PassesValidation(t) ==
    LET p == Decode(task[t].body) IN
    p.kind = "return" /\ ~(p.val.t = "dict" /\ BadShape(p.val))

\* exc is an HTTPError with status 400
IsClientError(exc) == exc.type = "HTTPError" /\ exc.status_code = 400

\* C2: a call whose decoded payload fails validation ends with the
\* validator's HTTPError 400, and neither predict, explain or postprocess
\* runs nor anything is sent, for every model_type and host configuration.
C2_ValidationAborts ==
    \A t \in Tasks :
        (Decoded(t) /\ FailsValidation(t)) =>
            /\ task[t].pc = "done"
            /\ task[t].raised =
                   <<[type |-> "HTTPError", status_code |-> 400,
                      reason |-> Str("Expected \"instances\" or \"inputs\" to be a list")]>>
            /\ task[t].returned = <<>>
            /\ task[t].sent = <<>>
            /\ task[t].stages = <<"preprocess", "validate">>

\* an explain call with an explainer host, whose ServeRequest body failed validation
C2_Witness ==
    \E t \in Tasks :
        /\ task[t].pc = "done"
        /\ task[t].body.t = "ServeRequest"
        /\ task[t].model_type = "EXPLAINER"
        /\ self.explainer_host # None
        /\ FailsValidation(t)
        /\ task[t].raised # <<>>

\* predictor_host is not set: None, or the empty string
NoPredictorHost == self.predictor_host = None \/ self.predictor_host.v = <<>>

\* C3 as stated: a PREDICTOR call on an instance without predictor_host
\* ends with NotImplementedError, whatever the body and the protocol, and
\* sends nothing.
C3_AlwaysUnimplemented ==
    \A t \in Tasks :
        (task[t].model_type = "PREDICTOR" /\ NoPredictorHost) =>
            /\ task[t].sent = <<>>
            /\ task[t].pc = "done" => task[t].raised = <<[type |-> "NotImplementedError"]>>

\* C3 amended: a PREDICTOR call on an instance without predictor_host sends
\* nothing, whatever the body and the protocol, and never returns a
\* response; it ends with NotImplementedError when the body passes
\* preprocess and validate, and with their HTTPError 400 when it does not.
C3_UnimplementedAfterValidation ==
    \A t \in Tasks :
        (task[t].model_type = "PREDICTOR" /\ NoPredictorHost) =>
            /\ task[t].sent = <<>>
            /\ task[t].pc \in {"idle", "body_await", "done"}
            /\ task[t].pc = "done" =>
                   /\ task[t].returned = <<>>
                   /\ Len(task[t].raised) = 1
                   /\ IF PassesValidation(t)
                      THEN task[t].raised[1] = [type |-> "NotImplementedError"]
                      ELSE IsClientError(task[t].raised[1])

\* a valid body under gRPC without predictor_host ended with NotImplementedError
C3_Witness ==
    \E t \in Tasks :
        /\ task[t].pc = "done"
        /\ task[t].model_type = "PREDICTOR"
        /\ self.predictor_host = None
        /\ self.protocol = "grpc-v2"
        /\ task[t].body.t = "ModelInferRequest"
        /\ task[t].raised = <<[type |-> "NotImplementedError"]>>

\* C4 as stated: an EXPLAINER call on an instance whose explainer_host is
\* None ends with NotImplementedError and sends nothing, whatever the
\* predictor host and the protocol.
C4_AlwaysUnimplemented ==
    \A t \in Tasks :
        (task[t].model_type = "EXPLAINER" /\ self.explainer_host = None) =>
            /\ task[t].sent = <<>>
            /\ task[t].pc = "done" => task[t].raised = <<[type |-> "NotImplementedError"]>>

\* C4 amended: an EXPLAINER call on an instance whose explainer_host is None
\* sends nothing, whatever the predictor host and the protocol, and never
\* returns a response; it ends with NotImplementedError when the body
\* passes preprocess and validate, and with their HTTPError 400 when not.
C4_UnimplementedAfterValidation ==
    \A t \in Tasks :
        (task[t].model_type = "EXPLAINER" /\ self.explainer_host = None) =>
            /\ task[t].sent = <<>>
            /\ task[t].pc \in {"idle", "body_await", "done"}
            /\ task[t].pc = "done" =>
                   /\ task[t].returned = <<>>
                   /\ Len(task[t].raised) = 1
                   /\ IF PassesValidation(t)
                      THEN task[t].raised[1] = [type |-> "NotImplementedError"]
                      ELSE IsClientError(task[t].raised[1])

\* an explain call with a predictor host and no explainer host ended with
\* NotImplementedError
C4_Witness ==
    \E t \in Tasks :
        /\ task[t].pc = "done"
        /\ task[t].model_type = "EXPLAINER"
        /\ self.explainer_host = None
        /\ self.predictor_host # None /\ self.predictor_host.v # <<>>
        /\ task[t].body.t = "dict"
        /\ task[t].raised = <<[type |-> "NotImplementedError"]>>

\* C5: when fetch returns a response whose code is not 200, the call ends
\* with HTTPError(code, body), the body as received, returns nothing and
\* does not run postprocess, for predict and for explain alike.
C5_BackendError ==
    \A t \in Tasks :
        (task[t].got # <<>> /\ task[t].sent[1].via = "http"
            /\ task[t].got[1].kind = "response" /\ task[t].got[1].code # 200) =>
            /\ task[t].pc = "done"
            /\ task[t].raised =
                   <<[type |-> "HTTPError", status_code |-> task[t].got[1].code,
                      reason |-> task[t].got[1].body]>>
            /\ task[t].returned = <<>>
            /\ \A i \in 1..Len(task[t].stages) : task[t].stages[i] # "postprocess"

\* an explain call got 500 "boom" and raised it
C5_Witness ==
    \E t \in Tasks :
        /\ task[t].model_type = "EXPLAINER"
        /\ task[t].got = <<[kind |-> "response", code |-> 500,
                            body |-> Bytes(<<RawTok("boom")>>)]>>
        /\ task[t].raised # <<>>
        /\ task[t].raised[1].status_code = 500

\* the URL the claim gives for a model_type, protocol, host and name
ClaimedUrl(model_type, protocol, host, name) ==
    CASE model_type = "PREDICTOR" /\ protocol = "v1" ->
             <<"http://">> \o host \o <<"/v1/models/">> \o name \o <<":predict">>
      [] model_type = "PREDICTOR" /\ protocol = "v2" ->
             <<"http://">> \o host \o <<"/v2/models/">> \o name \o <<"/infer">>
      [] model_type = "EXPLAINER" /\ protocol = "v1" ->
             <<"http://">> \o host \o <<"/v1/models/">> \o name \o <<":explain">>
      [] model_type = "EXPLAINER" /\ protocol = "v2" ->
             <<"http://">> \o host \o <<"/v2/models/">> \o name \o <<"/explain">>

\* C6: every HTTP request of a call goes to the URL that model_type, protocol,
\* host and name determine: predictor_host with /v1/models/{name}:predict
\* (REST_V1) or /v2/models/{name}/infer (REST_V2) for PREDICTOR,
\* explainer_host with /v1/models/{name}:explain (REST_V1) or
\* /v2/models/{name}/explain (REST_V2) for EXPLAINER.
C6_Endpoint ==
    \A t \in Tasks :
        \A i \in 1..Len(task[t].sent) :
            (task[t].sent[i].via = "http" /\ self.protocol \in {"v1", "v2"}) =>
                /\ task[t].model_type \in {"PREDICTOR", "EXPLAINER"}
                /\ task[t].sent[i].target.v =
                       ClaimedUrl(task[t].model_type, self.protocol,
                                  IF task[t].model_type = "PREDICTOR"
                                  THEN self.predictor_host.v
                                  ELSE self.explainer_host.v,
                                  self.name.v)

\* an explain call under REST_V2 posted to the explainer's v2 URL while a
\* different predictor host is configured
C6_Witness ==
    \E t \in Tasks :
        /\ task[t].model_type = "EXPLAINER"
        /\ self.protocol = "v2"
        /\ self.predictor_host = Text(<<"ph">>)
        /\ Len(task[t].sent) = 1
        /\ task[t].sent[1].target.v = <<"http://", "eh", "/v2/models/", "m", "/explain">>

\* C10: every call completes, with a response or with one exception and
\* never both, once request.body(), fetch and ModelInfer complete; a
\* response is what postprocess returned; a fault or timeout of the
\* outbound call ends the call with an exception.
C10_Completes ==
    \A t \in Tasks :
        /\ [](task[t].pc = "done" =>
                /\ Len(task[t].returned) + Len(task[t].raised) = 1
                /\ task[t].returned # <<>> =>
                       task[t].stages[Len(task[t].stages)] = "postprocess"
                /\ (task[t].got # <<>> /\ task[t].got[1].kind = "fault") =>
                       task[t].raised # <<>>)
        /\ [](task[t].pc \in {"idle", "body_await", "http_await", "grpc_await", "done"})
        /\ (task[t].pc # "idle") ~> (task[t].pc = "done")

\* a call whose fetch timed out is done with the timeout as its exception
C10_Witness ==
    \E t \in Tasks :
        /\ task[t].pc = "done"
        /\ task[t].got = <<[kind |-> "fault", type |-> "HTTPTimeoutError"]>>
        /\ task[t].raised = <<[kind |-> "fault", type |-> "HTTPTimeoutError"]>>
        /\ task[t].returned = <<>>

\* C11: a call issues at most one outbound exchange (one POST or one
\* ModelInfer), and still has issued only that one after it came back with
\* a code other than 200, a fault or the timeout.
C11_NoRetry ==
    \A t \in Tasks :
        /\ Len(task[t].sent) <= 1
        /\ Len(task[t].got) <= Len(task[t].sent)
        /\ task[t].got # <<>> => (task[t].pc = "done" /\ Len(task[t].sent) = 1)

\* a call whose only POST came back with 500 has ended
C11_Witness ==
    \E t \in Tasks :
        /\ task[t].pc = "done"
        /\ Len(task[t].got) = 1
        /\ task[t].got[1].kind = "response"
        /\ task[t].sent[1].via = "http"
        /\ task[t].got[1].code = 500
        /\ Len(task[t].sent) = 1

-----------------------------------------------------------------------------
(* Claims about the shared clients *)

\* at most one client and one stub were constructed, and every outbound call
\* in flight or completed went through the instance the unit holds
OneClientPerProtocol ==
    /\ made.http <= 1
    /\ made.grpc <= 1
    /\ \A t \in Tasks : \A i \in 1..Len(task[t].sent) :
           /\ task[t].sent[i].via = "http" =>
                  /\ task[t].sent[i].client = [t |-> "AsyncHTTPClient", id |-> 1]
                  /\ self._http_client_instance = task[t].sent[i].client
           /\ task[t].sent[i].via = "grpc" =>
                  /\ task[t].sent[i].client.id = 1
                  /\ self._grpc_client_stub = task[t].sent[i].client

\* this step issues an outbound call through the transport via
Issues(via) ==
    \E t \in Tasks :
        /\ Len(task'[t].sent) = Len(task[t].sent) + 1
        /\ task'[t].sent[Len(task'[t].sent)].via = via

\* this step ends a call with the TypeError of json.dumps
FailsToSerialize ==
    \E t \in Tasks :
        /\ task[t].pc # "done"
        /\ task'[t].pc = "done"
        /\ task'[t].raised = <<[type |-> "TypeError"]>>

\* C12 as stated: at most one HTTP client and one gRPC stub are ever
\* constructed, every outbound call uses that instance, and an instance is
\* constructed only by a step that issues an outbound call of its kind.
C12_LazyOnFirstCall ==
    /\ []OneClientPerProtocol
    /\ [][made.http' # made.http => Issues("http")]_vars
    /\ [][made.grpc' # made.grpc => Issues("grpc")]_vars

\* C12 amended: at most one HTTP client and one gRPC stub are ever
\* constructed, under every interleaving of two calls, and every outbound
\* call uses that instance; the stub is constructed only by a step that
\* issues a gRPC call, the HTTP client only by a step that issues an HTTP
\* call or that fails to serialize the body of the call it was about to
\* issue (the client is looked up before json.dumps runs).
C12_LazyOnFirstUse ==
    /\ []OneClientPerProtocol
    /\ [][made.http' # made.http => (Issues("http") \/ FailsToSerialize)]_vars
    /\ [][made.grpc' # made.grpc => Issues("grpc")]_vars

\* two calls in flight over HTTP share the one client that was constructed
C12_Witness ==
    /\ made.http = 1
    /\ \A t \in Tasks :
           /\ task[t].pc = "http_await"
           /\ task[t].sent[1].client = self._http_client_instance
(* Claims about concurrent calls *)

\* the environment after the outbound call of e's task ended with the outcome o
Resumed(e, o) ==
    IF o.kind = "fault" THEN Raised(Got(e, o), o)
    ELSE IF "message" \in DOMAIN o THEN call_from_postprocess(Got(e, o), o.message)
    ELSE call_from_fetch(Got(e, o), o)

\* the task of one __call__(body, model_type) that runs alone on the instance as
\* configured, up to the position pc, its outbound call ending as in got
Alone(body, model_type, pc, got) ==
    LET e0 == [self |-> config, made |-> [http |-> 0, grpc |-> 0], task |-> IdleTask]
        e1 == call(e0, body, model_type)
        e2 == IF e1.task.pc = "body_await" /\ pc # "body_await"
              THEN call_from_validate(e1, preprocess_resume(body))
              ELSE e1
        e3 == IF got # <<>> THEN Resumed(e2, got[1]) ELSE e2
    IN e3.task

\* what the caller and the backend see of a task
Observed(k) ==
    [pc |-> k.pc, returned |-> k.returned, raised |-> k.raised,
     sent |-> [i \in 1..Len(k.sent) |->
                  [via |-> k.sent[i].via, target |-> k.sent[i].target,
                   method |-> k.sent[i].method, body |-> k.sent[i].body]]]

\* C13: in every interleaving of calls on one instance, the outcome of each call
\* and the target and body of its outbound call are those of the same call
\* (same body, same model type, same backend reply) running alone
C13_Independent ==
    \A t \in Tasks :
        task[t].pc # "idle" =>
            Observed(task[t]) =
                Observed(Alone(task[t].body, task[t].model_type, task[t].pc, task[t].got))

\* two calls were in flight together over the same gRPC stub, and one has its answer
C13_Witness ==
    /\ task["t1"].pc = "done" /\ task["t1"].returned # NoOutcome
    /\ task["t1"].sent # <<>> /\ task["t1"].sent[1].via = "grpc"
    /\ task["t2"].pc = "grpc_await"
    /\ task["t2"].sent[1].client = task["t1"].sent[1].client
    /\ self.predictor_host # config.predictor_host
(* Claims about the response shaping *)

\* C14: a call that returns hands back the result of its stage unchanged when
\* that is not a ModelInferResponse (the value parsed from the 200 body), and the
\* JSON-shaped projection of the ModelInferResponse otherwise, never the message
C14_Encoded ==
    \A t \in Tasks :
        (task[t].pc = "done" /\ task[t].returned # NoOutcome) =>
            /\ Len(task[t].got) = 1
            /\ task[t].got[1].kind = "response"
            /\ LET o == task[t].got[1]
                   r == task[t].returned[1]
               IN IF task[t].sent[1].via = "grpc"
                  THEN /\ r.t # "ModelInferResponse"
                       /\ IsDict(r)
                       /\ DOMAIN r.v = {"id", "outputs"}
                       /\ r.v["id"] = Str(IntStr(o.message.id))
                  ELSE /\ o.code = 200
                       /\ json_loads_bytes(o.body.v) = Return(r)

\* one call returned the projection of a gRPC answer, another the parsed 200 body
C14_Witness ==
    /\ task["t1"].pc = "done" /\ task["t1"].returned # NoOutcome
    /\ task["t1"].sent[1].via = "grpc"
    /\ task["t1"].got[1].message.t = "ModelInferResponse"
    /\ task["t2"].pc = "done" /\ task["t2"].returned # NoOutcome
    /\ task["t2"].sent[1].via = "http"
    /\ IsDict(task["t2"].returned[1])
(* Claims about the order of the stages *)

\* the stages of a call with the given model_type, in the order of __call__
StageOrder(model_type) ==
    CASE model_type = "EXPLAINER" -> <<"preprocess", "validate", "explain", "postprocess">>
      [] model_type = "PREDICTOR" -> <<"preprocess", "validate", "predict", "postprocess">>
      [] OTHER -> <<"preprocess", "validate">>

IsPrefix(s, q) == Len(s) <= Len(q) /\ \A i \in 1..Len(s) : s[i] = q[i]

\* C15: the stages a call has entered are an initial part of preprocess,
\* validate, the one stage of its model_type (explain or predict), postprocess;
\* validate starts only when preprocess has returned, on the payload it returned;
\* the stage of the model_type is entered and the outbound call is issued only
\* after validate passed, and postprocess only after the outbound call came back
C15_StageOrder ==
    \A t \in Tasks :
        task[t].pc # "idle" =>
            /\ task[t].stages # <<>>
            /\ IsPrefix(task[t].stages, StageOrder(task[t].model_type))
            /\ task[t].pc = "body_await" => task[t].stages = <<"preprocess">>
            /\ Len(task[t].stages) >= 2 => Decode(task[t].body).kind = "return"
            /\ Len(task[t].stages) >= 3 =>
                   /\ PassesValidation(t)
                   /\ task[t].request = Decode(task[t].body).val
            /\ task[t].sent # <<>> =>
                   /\ Len(task[t].stages) >= 3
                   /\ PassesValidation(t)
                   /\ task[t].sent[1].via = "http" =>
                          task[t].sent[1].body = Bytes(json_dumps(task[t].request).val)
                   /\ task[t].sent[1].via = "grpc" =>
                          task[t].sent[1].body = task[t].request
            /\ Len(task[t].stages) = 4 => (task[t].got # <<>> /\ task[t].pc = "done")

\* an explain call went through its four stages after a suspended preprocess
C15_Witness ==
    \E t \in Tasks :
        /\ task[t].pc = "done"
        /\ task[t].model_type = "EXPLAINER"
        /\ task[t].body.t = "ServeRequest"
        /\ task[t].stages = <<"preprocess", "validate", "explain", "postprocess">>
(* Claims about overridden stages *)

\* the methods m all written with `def`
AllSync(m) ==
    [m EXCEPT !.preprocess.async = FALSE, !.predict.async = FALSE, !.explain.async = FALSE]

\* the call of arg on the subclass whose methods are all plain functions
SyncRun ==
    call_stages([self |-> self, made |-> made, task |-> IdleTask, on |-> None],
                AllSync(arg.m), arg.body, arg.model_type).task

IsCoroutine(v) == v.t = "coroutine"

\* C16: a call on a subclass ends as the same call would with preprocess,
\* predict and explain written as plain functions with the same returns and
\* raises, whichever of them are coroutine functions; validate gets the value
\* preprocess resolved to, postprocess the value the stage resolved to, and no
\* coroutine object is handed on or returned
C16_Uniform ==
    /\ fpc = "done" =>
           /\ ret.task.returned = SyncRun.returned
           /\ ret.task.raised = SyncRun.raised
           /\ ret.task.stages = SyncRun.stages
           /\ ret.task.request = SyncRun.request
    /\ fpc \in {"stage_await", "done"} =>
           /\ ~IsCoroutine(ret.task.request)
           /\ Len(ret.task.stages) >= 3 => ret.task.request = arg.m.preprocess.outcome.val
           /\ ret.task.returned # NoOutcome =>
                  /\ ~IsCoroutine(ret.task.returned[1])
                  /\ LET f == IF arg.model_type = EXPLAINER THEN arg.m.explain
                                                            ELSE arg.m.predict
                     IN Return(ret.task.returned[1]) =
                            apply_postprocess(arg.m.postprocess, f.outcome.val)

\* a call returned after awaiting a coroutine preprocess and a coroutine predict
C16_Witness ==
    /\ fpc = "done"
    /\ arg.m.preprocess.async /\ arg.m.predict.async /\ ~arg.m.explain.async
    /\ arg.model_type = PREDICTOR
    /\ ret.task.returned # NoOutcome
(* Claims about the transport *)

\* C17: a predict call on an instance with a predictor host issues its outbound
\* call through the gRPC stub, and no HTTP request, when the protocol is grpc-v2,
\* and sends only HTTP requests when it is v1 or v2; an explain call sends only
\* HTTP requests under every protocol, under grpc-v2 to the explainer host
C17_Routing ==
    \A t \in Tasks :
        /\ (task[t].model_type = PREDICTOR /\ self.protocol = GRPC_V2
               /\ Len(task[t].stages) >= 3) =>
               (~NoPredictorHost =>
                    /\ Len(task[t].sent) = 1
                    /\ task[t].sent[1].via = "grpc"
                    /\ task[t].sent[1].client = self._grpc_client_stub)
        /\ \A i \in 1..Len(task[t].sent) :
               /\ (task[t].model_type = PREDICTOR /\ self.protocol \in {REST_V1, REST_V2}) =>
                      task[t].sent[i].via = "http"
               /\ task[t].model_type = EXPLAINER =>
                      /\ task[t].sent[i].via = "http"
                      /\ task[t].sent[i].client = self._http_client_instance
                      /\ self.protocol = GRPC_V2 =>
                             task[t].sent[i].target.v =
                                 <<"http://">> \o self.explainer_host.v
                                     \o <<"/v1/models/">> \o self.name.v \o <<":explain">>
               /\ task[t].sent[i].via = "grpc" =>
                      (task[t].model_type = PREDICTOR /\ self.protocol = GRPC_V2)

\* under grpc-v2 a predict call waits on the stub while an explain call waits
\* on the HTTP client
C17_Witness ==
    /\ self.protocol = GRPC_V2
    /\ task["t1"].model_type = PREDICTOR /\ task["t1"].pc = "grpc_await"
    /\ task["t2"].model_type = EXPLAINER /\ task["t2"].pc = "http_await"
    /\ task["t2"].sent[1].target.v = <<"http://", "eh", "/v1/models/", "m", ":explain">>
(* Claims about the configuration *)

\* the configuration of the instance and its ready flag
Configuration(me) ==
    [name |-> me.name, protocol |-> me.protocol, predictor_host |-> me.predictor_host,
     explainer_host |-> me.explainer_host, timeout |-> me.timeout, ready |-> me.ready]

\* C18: no step of a call changes name, protocol, predictor_host,
\* explainer_host, timeout or ready: after any calls they hold the values they
\* had before
C18_NoSideEffects ==
    [][task' # task => Configuration(self') = Configuration(self)]_vars
(* Claims about the errors of the stages *)

\* exc is an HTTPError with a 5xx status
IsServerError(exc) == exc.type = "HTTPError" /\ exc.status_code >= 500

\* the method of the subclass that the model_type of the call selects
DispatchMethod == IF arg.model_type = EXPLAINER THEN arg.m.explain ELSE arg.m.predict

\* the call ended by raising what validate raised, or, validate passing, the
\* NotImplementedError of a model_type that is neither explainer nor predictor
RaisedAtValidate(exc) ==
    LET v == validate(arg.m.preprocess.outcome.val) IN
    \/ v = Raise(exc)
    \/ /\ v.kind = "return"
       /\ arg.model_type \notin {EXPLAINER, PREDICTOR}
       /\ exc = NotImplementedError

\* C19 as stated: what validate or the stage of the model_type raised reaches
\* the caller as it was raised; a failure of preprocess reaches the caller as a
\* client error and a failure of postprocess as a server error
C19_Wrapped ==
    (fpc = "done" /\ ret.task.raised # NoOutcome) =>
        LET exc == ret.task.raised[1]
            n == Len(ret.task.stages)
        IN /\ n = 1 => IsClientError(exc)
           /\ n = 2 => RaisedAtValidate(exc)
           /\ n = 3 => DispatchMethod.outcome = Raise(exc)
           /\ n = 4 => IsServerError(exc)

\* C19 amended: what any of preprocess, validate, the stage of the model_type
\* or postprocess raised reaches the caller as it was raised, and the stages
\* after it do not run; KFModel's own preprocess fails with HTTPError 400
C19_Unmodified ==
    /\ (fpc = "done" /\ ret.task.raised # NoOutcome) =>
           LET exc == ret.task.raised[1]
               n == Len(ret.task.stages)
           IN /\ ret.task.returned = NoOutcome
              /\ n \in 1..4
              /\ n = 1 => arg.m.preprocess.outcome = Raise(exc)
              /\ n = 2 => RaisedAtValidate(exc)
              /\ n = 3 => DispatchMethod.outcome = Raise(exc)
              /\ n = 4 => arg.m.postprocess.outcome = Raise(exc)
    /\ (fpc = "done" /\ arg.m.preprocess.outcome.kind = "raise") =>
           /\ ret.task.raised = <<arg.m.preprocess.outcome.exc>>
           /\ ret.task.stages = <<"preprocess">>
           /\ arg.m.preprocess = Method(TRUE, preprocess(arg.body)) =>
                  IsClientError(ret.task.raised[1])

\* the KeyError of an overriding postprocess reached the caller
C19_Witness ==
    /\ fpc = "done"
    /\ Len(ret.task.stages) = 4
    /\ ret.task.raised = <<[type |-> "KeyError"]>>
    /\ ret.task.returned = NoOutcome
(* Claims about the gRPC target *)

\* the address the claim gives for the configured predictor host
ClaimedTarget ==
    IF HasColon(config.predictor_host) THEN config.predictor_host
    ELSE Text(config.predictor_host.v \o <<":", "80">>)

\* C20: the stub is bound to the configured predictor host as given when it
\* carries a port and to the host followed by ":80" when it carries none; every
\* gRPC call of the instance goes to that one address, and predictor_host is
\* the configured host with ":80" appended at most once
C20_Target ==
    /\ self._grpc_client_stub # None =>
           /\ self._grpc_client_stub.target = ClaimedTarget
           /\ self.predictor_host = ClaimedTarget
    /\ self._grpc_client_stub = None => self.predictor_host = config.predictor_host
    /\ \A t \in Tasks :
           \A i \in 1..Len(task[t].sent) :
               task[t].sent[i].via = "grpc" => task[t].sent[i].target = ClaimedTarget

\* two gRPC predict calls on an instance configured with the host "ph" wait on
\* the address ph:80
C20_Witness ==
    /\ config.predictor_host = Text(<<"ph">>)
    /\ \A t \in Tasks :
           /\ task[t].pc = "grpc_await"
           /\ task[t].sent[1].target = Text(<<"ph", ":", "80">>)
    /\ self.predictor_host = Text(<<"ph", ":", "80">>)

====
